---- MODULE Spec2Model ----
(***************************************************************************)
(* AuthController (verify, login) and SecretDecryptController (decrypt).   *)
(*                                                                         *)
(* Every `await` of the source is one suspension point: the program        *)
(* counter names the awaited operation, and the action that resolves it    *)
(* runs the synchronous code up to the next await.  Every awaited promise  *)
(* may fulfil or reject; synchronous calls (port.emit, getEmitableError,   *)
(* storeMasterPasswordTemporarily, settings.setDefaults) return normally.  *)
(* An awaited operation that never settles is a behaviour that stutters.   *)
(***************************************************************************)
EXTENDS Integers, Sequences, FiniteSets, TLC

VARIABLES
  op,        \* the controller method in progress: "none", "verify", "login", "decrypt"
  pc,        \* the await at which the method is suspended, or how it ended
  hpc,       \* the await at which the un-awaited handleLoginSuccess() is suspended
  fpc,       \* the await at which the _getSecret() promise is suspended
  worker,    \* this.worker: its pageMod name and its tab id
  args,      \* the arguments of the call
  server,    \* what the Authenticator's probes answer during this call
  local,     \* local variables of the method (error, passphrase, privateKey, secret, message)
  replies,   \* what was emitted on this.worker.port for this.requestId
  side,      \* what was emitted on Worker.get('Auth', tabId).port
  trace,     \* collaborator calls and their outcomes, in order, for this call
  session,   \* User singleton: retained passphrase, csrf token, settings
  progress,  \* the progress dialog of progressController: open or not
  ncalls,    \* number of controller calls started so far
  hist       \* history: the session when this call started, the previous call's result

vars == <<op, pc, hpc, fpc, worker, args, server, local, replies, side, trace,
          session, progress, ncalls, hist>>

----------------------------------------------------------------------------
(* Bounds and input domains *)

MaxCalls == 2

None == "none"

PageModNames == {None, "AuthForm", "PassboltApp"}
TabIds == {"tab1", "tab2"}
Workers == [pageMod : PageModNames, tab : TabIds]

Passphrases == {"correct", "wrong"}

\* redirect values: absent, a non-string, strings with and without a leading "/"
Redirects ==
  { [type |-> "null", chars |-> <<>>],
    [type |-> "number", chars |-> <<>>],
    [type |-> "string", chars |-> <<>>],
    [type |-> "string", chars |-> <<"/", "a">>],
    [type |-> "string", chars |-> <<"a">>],
    [type |-> "string", chars |-> <<"/", "..", "/", "a">>] }

\* values of the setting user.settings.trustedDomain: a bare origin, and an
\* installation in a sub-directory
TrustedDomains ==
  { <<"https://passbolt.dev">>, <<"https://passbolt.dev", "/", "passbolt">> }

ResourceIds == {"res-1", "res-2"}

\* errors the collaborators reject with; `stack` is internal detail
MkError(n, m) == [name |-> n, message |-> m, stack |-> "internal"]
AuthError == MkError("AuthError", <<"auth failed">>)
CryptoError == MkError("CryptoError", <<"bad passphrase">>)
NetworkError == MkError("NetworkError", <<"network">>)
ProbeError == MkError("ProbeError", <<"probe failed">>)
PromptCancelledError == MkError("PromptCancelledError", <<"cancelled">>)
ProgressError == MkError("ProgressError", <<"progress dialog">>)
TypeError == MkError("TypeError", <<"undefined has no property">>)
NoError == [name |-> None, message |-> <<>>, stack |-> None]
NoMessage == <<>>

----------------------------------------------------------------------------
(* Helpers *)

Count(s, e) == Cardinality({i \in 1..Len(s) : s[i] = e})

Called(e) == Count(trace, e) > 0

\* index of the first occurrence of e in the trace, 0 if absent
RECURSIVE IndexFrom(_, _, _)
IndexFrom(s, e, i) ==
  IF i > Len(s) THEN 0 ELSE IF s[i] = e THEN i ELSE IndexFrom(s, e, i + 1)
Index(e) == IndexFrom(trace, e, 1)

\* worker.port.getEmitableError(error): the serialisable part of the error
getEmitableError(error) == [name |-> error.name, message |-> error.message]

\* this.worker.pageMod && this.worker.pageMod.args.name === "AuthForm"
\* variant: any page mod counts as the login form
isAuthFormMutant(w) == w.pageMod # None
isAuthForm(w) == w.pageMod # None /\ w.pageMod = "AuthForm"

\* this.worker.port.emit(this.requestId, status, payload)
Reply(status, payload) == [status |-> status, payload |-> payload]

\* Worker.get('Auth', tabId).port.emit(event, ...payload)
SideMsg(tab, event, payload) == [worker |-> "Auth", tab |-> tab, event |-> event, payload |-> payload]

Undefined == [defined |-> FALSE, data |-> None]

IdleLocal ==
  [error |-> NoError, tabId |-> None, passphrase |-> None, privateKey |-> None,
   resource |-> <<>>, secretPromise |-> Undefined, secret |-> Undefined,
   message |-> NoMessage]

IdleArgs == [passphrase |-> None, remember |-> FALSE,
             redirect |-> [type |-> "null", chars |-> <<>>], resourceId |-> None]

IdleServer == [keyChanged |-> FALSE, keyExpired |-> FALSE]

IdleWorker == [pageMod |-> None, tab |-> "tab1"]

\* what is remembered of a call once the next one starts: for a decrypt() that
\* emitted SUCCESS, its resource, passphrase, armored secret and plaintext
NoPrev == [resourceId |-> None, passphrase |-> None, data |-> <<>>, message |-> <<>>]

callSummary ==
  IF op = "decrypt" /\ \E i \in 1..Len(replies) : replies[i].status = "SUCCESS"
    THEN [resourceId |-> args.resourceId, passphrase |-> local.passphrase,
          data |-> local.secret.data, message |-> local.message]
    ELSE NoPrev

\* every promise of the previous call has settled
Settled ==
  /\ pc \in {"idle", "done", "rejected"}
  /\ hpc \in {"idle", "done", "rejected"}
  /\ fpc \in {"idle", "fulfilled", "rejected"}

\* a controller is constructed for a request once the previous one is released
CanStart == op = None /\ ncalls < MaxCalls

Init ==
  /\ op = None
  /\ pc = "idle"
  /\ hpc = "idle"
  /\ fpc = "idle"
  /\ worker = IdleWorker
  /\ args = IdleArgs
  /\ server = IdleServer
  /\ local = IdleLocal
  /\ replies = <<>>
  /\ side = <<>>
  /\ trace = <<>>
  /\ \E d \in TrustedDomains :
       session = [retained |-> <<>>, csrfToken |-> FALSE, settings |-> None,
                  loop |-> FALSE, trustedDomain |-> d]
  /\ progress = [open |-> FALSE]
  /\ ncalls = 0
  /\ hist = [session0 |-> session, prev |-> NoPrev]

\* the call has returned and all it started has settled: the controller and
\* its locals go out of scope; the session and the progress dialog stay
release ==
  /\ op # None /\ Settled
  /\ op' = None
  /\ pc' = "idle"
  /\ hpc' = "idle"
  /\ fpc' = "idle"
  /\ worker' = IdleWorker
  /\ args' = IdleArgs
  /\ server' = IdleServer
  /\ local' = IdleLocal
  /\ replies' = <<>>
  /\ side' = <<>>
  /\ trace' = <<>>
  /\ hist' = [hist EXCEPT !.prev = callSummary]
  /\ UNCHANGED <<session, progress, ncalls>>

----------------------------------------------------------------------------
(* AuthController.verify *)

MsgVerified == <<"The server key is verified. The server can use it to sign and decrypt content.">>
MsgCouldNotVerify == "Could not verify server key."

\* error.message = `${__('Could not verify server key.')} ${error.message}`
prefixMessage(error) == [error EXCEPT !.message = <<MsgCouldNotVerify>> \o @]

ServerKeyChangedError == MkError("ServerKeyChangedError", <<"The server key has changed.">>)
KeyIsExpiredError == MkError("KeyIsExpiredError", <<"The server key is expired.">>)

\* line 109-110: prefix the message and emit ERROR
verifyEmitError(error) ==
  replies' = Append(replies, Reply("ERROR", getEmitableError(prefixMessage(error))))

\* verify() is called: auth.verify() is called and awaited
verify ==
  /\ CanStart
  /\ \E w \in Workers, kc \in BOOLEAN, ke \in BOOLEAN :
       /\ worker' = w
       /\ server' = [keyChanged |-> kc, keyExpired |-> ke]
  /\ op' = "verify"
  /\ pc' = "auth.verify"
  /\ hpc' = "idle"
  /\ fpc' = "idle"
  /\ args' = IdleArgs
  /\ local' = IdleLocal
  /\ replies' = <<>>
  /\ side' = <<>>
  /\ trace' = <<"auth.verify">>
  /\ ncalls' = ncalls + 1
  /\ hist' = [hist EXCEPT !.session0 = session]
  /\ UNCHANGED <<session, progress>>

\* auth.verify() settles
\* variant: the classification also runs after a successful auth.verify()
verifyAuthVerifyMutant ==
  /\ op = "verify" /\ pc = "auth.verify"
  /\ \E ok \in BOOLEAN :
       /\ trace' = trace \o <<IF ok THEN "auth.verify.ok" ELSE "auth.verify.fail">>
                         \o <<"auth.serverKeyChanged">>
       /\ IF ok
            THEN replies' = Append(replies, Reply("SUCCESS", MsgVerified))
            ELSE replies' = replies
       /\ local' = [local EXCEPT !.error = IF ok THEN NoError ELSE AuthError]
       /\ pc' = "auth.serverKeyChanged"
  /\ UNCHANGED <<op, hpc, fpc, worker, args, server, side, session, progress, ncalls, hist>>

verifyAuthVerify ==
  /\ op = "verify" /\ pc = "auth.verify"
  /\ \/ /\ trace' = Append(trace, "auth.verify.ok")
        /\ replies' = Append(replies, Reply("SUCCESS", MsgVerified))
        /\ pc' = "done"
        /\ local' = local
     \/ /\ trace' = trace \o <<"auth.verify.fail", "auth.serverKeyChanged">>
        /\ local' = [local EXCEPT !.error = AuthError]
        /\ pc' = "auth.serverKeyChanged"
        /\ replies' = replies
  /\ UNCHANGED <<op, hpc, fpc, worker, args, server, side, session, progress, ncalls, hist>>

\* auth.serverKeyChanged() settles
\* variant: key expiry takes priority over key change
verifyServerKeyChangedMutant ==
  /\ op = "verify" /\ pc = "auth.serverKeyChanged"
  /\ \/ /\ server.keyChanged /\ ~server.keyExpired
        /\ trace' = Append(trace, "auth.serverKeyChanged.true")
        /\ local' = [local EXCEPT !.error = ServerKeyChangedError]
        /\ verifyEmitError(ServerKeyChangedError)
        /\ pc' = "done"
     \/ /\ ~(server.keyChanged /\ ~server.keyExpired)
        /\ trace' = trace \o <<"auth.serverKeyChanged.false", "auth.isServerKeyExpired">>
        /\ pc' = "auth.isServerKeyExpired"
        /\ UNCHANGED <<local, replies>>
  /\ UNCHANGED <<op, hpc, fpc, worker, args, server, side, session, progress, ncalls, hist>>

verifyServerKeyChanged ==
  /\ op = "verify" /\ pc = "auth.serverKeyChanged"
  /\ \/ /\ server.keyChanged
        /\ trace' = Append(trace, "auth.serverKeyChanged.true")
        /\ local' = [local EXCEPT !.error = ServerKeyChangedError]
        /\ verifyEmitError(ServerKeyChangedError)
        /\ pc' = "done"
     \/ /\ ~server.keyChanged
        /\ trace' = trace \o <<"auth.serverKeyChanged.false", "auth.isServerKeyExpired">>
        /\ pc' = "auth.isServerKeyExpired"
        /\ UNCHANGED <<local, replies>>
     \/ \* the probe rejects: the exception leaves the catch block
        /\ trace' = Append(trace, "auth.serverKeyChanged.fail")
        /\ local' = [local EXCEPT !.error = ProbeError]
        /\ pc' = "rejected"
        /\ UNCHANGED replies
  /\ UNCHANGED <<op, hpc, fpc, worker, args, server, side, session, progress, ncalls, hist>>

\* auth.isServerKeyExpired() settles
verifyIsServerKeyExpired ==
  /\ op = "verify" /\ pc = "auth.isServerKeyExpired"
  /\ \/ /\ server.keyExpired
        /\ trace' = Append(trace, "auth.isServerKeyExpired.true")
        /\ local' = [local EXCEPT !.error = KeyIsExpiredError]
        /\ verifyEmitError(KeyIsExpiredError)
        /\ pc' = "done"
     \/ /\ ~server.keyExpired
        /\ trace' = Append(trace, "auth.isServerKeyExpired.false")
        /\ verifyEmitError(local.error)
        /\ pc' = "done"
        /\ UNCHANGED local
     \/ /\ trace' = Append(trace, "auth.isServerKeyExpired.fail")
        /\ local' = [local EXCEPT !.error = ProbeError]
        /\ pc' = "rejected"
        /\ UNCHANGED replies
  /\ UNCHANGED <<op, hpc, fpc, worker, args, server, side, session, progress, ncalls, hist>>

----------------------------------------------------------------------------
(* AuthController.login *)

MsgLoggingIn == <<"Logging in">>
MsgLoggedIn == <<"You are now logged in!">>

\* Config.read('user.settings.trustedDomain')
TrustedDomain == session.trustedDomain

\* A URL string is a sequence of tokens: the scheme and host first, then "/"
\* and the names between the slashes.  new URL(s) splits it into the origin
\* (everything before the first "/") and the path.
RECURSIVE HostEndFrom(_, _)
HostEndFrom(s, i) ==
  IF i > Len(s) THEN i ELSE IF s[i] = "/" THEN i ELSE HostEndFrom(s, i + 1)
HostEnd(s) == HostEndFrom(s, 2)
OriginOf(s) == SubSeq(s, 1, HostEnd(s) - 1)
PathTokens(s) == SubSeq(s, HostEnd(s), Len(s))

\* the path segments: each "/" starts a segment, the tokens after it fill it
RECURSIVE Segments(_, _, _)
Segments(t, i, acc) ==
  IF i > Len(t) THEN acc
  ELSE IF t[i] = "/" THEN Segments(t, i + 1, Append(acc, <<>>))
  ELSE Segments(t, i + 1, [acc EXCEPT ![Len(acc)] = Append(@, t[i])])

\* the URL parser resolves "." and ".." segments; one in last position leaves
\* a trailing slash
RECURSIVE RemoveDots(_, _, _)
RemoveDots(segs, i, out) ==
  IF i > Len(segs) THEN out
  ELSE LET last == (i = Len(segs))
           popped == IF Len(out) = 0 THEN out ELSE SubSeq(out, 1, Len(out) - 1)
       IN  IF segs[i] = <<"..">>
             THEN RemoveDots(segs, i + 1, IF last THEN Append(popped, <<>>) ELSE popped)
           ELSE IF segs[i] = <<".">>
             THEN RemoveDots(segs, i + 1, IF last THEN Append(out, <<>>) ELSE out)
           ELSE RemoveDots(segs, i + 1, Append(out, segs[i]))

RECURSIVE Serialize(_, _)
Serialize(segs, i) ==
  IF i > Len(segs) THEN <<>> ELSE <<"/">> \o segs[i] \o Serialize(segs, i + 1)

\* new URL(s).href: the origin, then the normalised path ("/" when empty)
Href(s) ==
  LET segs == RemoveDots(Segments(PathTokens(s), 1, <<>>), 1, <<>>)
  IN  OriginOf(s) \o (IF segs = <<>> THEN <<"/">> ELSE Serialize(segs, 1))

\* !redirect || !(typeof redirect === 'string' || ...) || redirect.charAt(0) !== '/'
\* variant: the first character of redirect is not looked at
useTrustedDomainOnlyMutant(redirect) ==
  \/ redirect.type = "null"
  \/ redirect.type = "string" /\ redirect.chars = <<>>
  \/ redirect.type # "string"

useTrustedDomainOnly(redirect) ==
  \/ redirect.type = "null"
  \/ redirect.type = "string" /\ redirect.chars = <<>>
  \/ redirect.type # "string"
  \/ redirect.chars[1] # "/"

\* lines 184-189: the url sent with login-success
redirectUrl(redirect) ==
  IF useTrustedDomainOnly(redirect)
    THEN Href(TrustedDomain)
    ELSE Href(TrustedDomain \o redirect.chars)

\* crypto.getAndDecryptPrivateKey(passphrase) can fulfil only with the right passphrase
canDecryptPrivateKey(passphrase) == passphrase = "correct"

\* handleLoginError(error), lines 202-208
handleLoginError(error) ==
  IF isAuthForm(worker)
    THEN /\ side' = Append(side, SideMsg(local.tabId, "passbolt.auth.login-failed", error.message))
         /\ replies' = replies
    ELSE /\ replies' = Append(replies, Reply("ERROR", getEmitableError(error)))
         /\ side' = side

\* login(passphrase, remember, redirect) is called: beforeLogin() runs, then
\* user.retrieveAndStoreCsrfToken() is called and awaited
login ==
  /\ CanStart
  /\ \E w \in Workers, p \in Passphrases, r \in BOOLEAN, rd \in Redirects :
       /\ worker' = w
       /\ args' = [IdleArgs EXCEPT !.passphrase = p, !.remember = r, !.redirect = rd]
       /\ IF isAuthForm(w)
            THEN /\ local' = [IdleLocal EXCEPT !.tabId = w.tab]
                 /\ side' = <<SideMsg(w.tab, "passbolt.auth.login-processing", MsgLoggingIn)>>
            ELSE /\ local' = IdleLocal
                 /\ side' = <<>>
  /\ op' = "login"
  /\ pc' = "user.retrieveAndStoreCsrfToken"
  /\ hpc' = "idle"
  /\ fpc' = "idle"
  /\ server' = IdleServer
  /\ replies' = <<>>
  /\ trace' = <<"user.retrieveAndStoreCsrfToken">>
  /\ ncalls' = ncalls + 1
  /\ hist' = [hist EXCEPT !.session0 = session]
  /\ UNCHANGED <<session, progress>>

\* the catch block of login(): handleLoginError(error), then login() returns
loginCatch(event, error) ==
  /\ trace' = trace \o <<event, "handleLoginError">>
  /\ local' = [local EXCEPT !.error = error]
  /\ handleLoginError(error)
  /\ pc' = "done"

\* user.retrieveAndStoreCsrfToken() settles
\* variant: a failed CSRF bootstrap does not abort the login
loginCsrfMutant ==
  /\ op = "login" /\ pc = "user.retrieveAndStoreCsrfToken"
  /\ \/ /\ trace' = trace \o <<"user.retrieveAndStoreCsrfToken.ok", "crypto.getAndDecryptPrivateKey">>
        /\ session' = [session EXCEPT !.csrfToken = TRUE]
        /\ pc' = "crypto.getAndDecryptPrivateKey"
        /\ UNCHANGED <<local, replies, side>>
     \/ /\ trace' = trace \o <<"user.retrieveAndStoreCsrfToken.fail", "crypto.getAndDecryptPrivateKey">>
        /\ pc' = "crypto.getAndDecryptPrivateKey"
        /\ UNCHANGED <<session, local, replies, side>>
  /\ UNCHANGED <<op, hpc, fpc, worker, args, server, progress, ncalls, hist>>

loginCsrf ==
  /\ op = "login" /\ pc = "user.retrieveAndStoreCsrfToken"
  /\ \/ /\ trace' = trace \o <<"user.retrieveAndStoreCsrfToken.ok", "crypto.getAndDecryptPrivateKey">>
        /\ session' = [session EXCEPT !.csrfToken = TRUE]
        /\ pc' = "crypto.getAndDecryptPrivateKey"
        /\ UNCHANGED <<local, replies, side>>
     \/ /\ loginCatch("user.retrieveAndStoreCsrfToken.fail", NetworkError)
        /\ UNCHANGED session
  /\ UNCHANGED <<op, hpc, fpc, worker, args, server, progress, ncalls, hist>>

\* crypto.getAndDecryptPrivateKey(passphrase) settles
\* variant: a failed key decryption does not abort the login
loginDecryptKeyMutant ==
  /\ op = "login" /\ pc = "crypto.getAndDecryptPrivateKey"
  /\ \E ok \in BOOLEAN :
       /\ trace' = trace \o <<IF ok /\ canDecryptPrivateKey(args.passphrase)
                                THEN "crypto.getAndDecryptPrivateKey.ok"
                                ELSE "crypto.getAndDecryptPrivateKey.fail", "auth.login">>
       /\ local' = [local EXCEPT !.privateKey = "privateKey"]
       /\ pc' = "auth.login"
       /\ UNCHANGED <<replies, side>>
  /\ UNCHANGED <<op, hpc, fpc, worker, args, server, session, progress, ncalls, hist>>

loginDecryptKey ==
  /\ op = "login" /\ pc = "crypto.getAndDecryptPrivateKey"
  /\ \/ /\ canDecryptPrivateKey(args.passphrase)
        /\ trace' = trace \o <<"crypto.getAndDecryptPrivateKey.ok", "auth.login">>
        /\ local' = [local EXCEPT !.privateKey = "privateKey"]
        /\ pc' = "auth.login"
        /\ UNCHANGED <<replies, side>>
     \/ loginCatch("crypto.getAndDecryptPrivateKey.fail", CryptoError)
  /\ UNCHANGED <<op, hpc, fpc, worker, args, server, session, progress, ncalls, hist>>

\* auth.login(privateKey) settles; on success the passphrase is retained if
\* remember, and auth.startCheckAuthStatusLoop() is called and awaited
\* variant: the passphrase is retained whatever `remember` says
loginAuthLoginMutant ==
  /\ op = "login" /\ pc = "auth.login"
  /\ \/ /\ trace' = trace \o <<"auth.login.ok">>
                          \o (IF TRUE THEN <<"user.storeMasterPasswordTemporarily">> ELSE <<>>)
                          \o <<"auth.startCheckAuthStatusLoop">>
        /\ session' = IF TRUE
                        THEN [session EXCEPT !.retained =
                               <<[masterPassword |-> args.passphrase, timeout |-> -1]>>]
                        ELSE session
        /\ pc' = "auth.startCheckAuthStatusLoop"
        /\ UNCHANGED <<local, replies, side>>
     \/ /\ loginCatch("auth.login.fail", AuthError)
        /\ UNCHANGED session
  /\ UNCHANGED <<op, hpc, fpc, worker, args, server, progress, ncalls, hist>>

loginAuthLogin ==
  /\ op = "login" /\ pc = "auth.login"
  /\ \/ /\ trace' = trace \o <<"auth.login.ok">>
                          \o (IF args.remember THEN <<"user.storeMasterPasswordTemporarily">> ELSE <<>>)
                          \o <<"auth.startCheckAuthStatusLoop">>
        /\ session' = IF args.remember
                        THEN [session EXCEPT !.retained =
                               <<[masterPassword |-> args.passphrase, timeout |-> -1]>>]
                        ELSE session
        /\ pc' = "auth.startCheckAuthStatusLoop"
        /\ UNCHANGED <<local, replies, side>>
     \/ /\ loginCatch("auth.login.fail", AuthError)
        /\ UNCHANGED session
  /\ UNCHANGED <<op, hpc, fpc, worker, args, server, progress, ncalls, hist>>

\* auth.startCheckAuthStatusLoop() settles; on success syncUserSettings() is
\* called, which calls and awaits user.settings.sync()
\* variant: the loop start is not awaited, its outcome is ignored
loginStartLoopMutant ==
  /\ op = "login" /\ pc = "auth.startCheckAuthStatusLoop"
  /\ \/ /\ trace' = trace \o <<"auth.startCheckAuthStatusLoop.ok", "user.settings.sync">>
        /\ session' = [session EXCEPT !.loop = TRUE]
     \/ /\ trace' = trace \o <<"auth.startCheckAuthStatusLoop.fail", "user.settings.sync">>
        /\ UNCHANGED session
  /\ pc' = "user.settings.sync"
  /\ UNCHANGED <<local, replies, side>>
  /\ UNCHANGED <<op, hpc, fpc, worker, args, server, progress, ncalls, hist>>

loginStartLoop ==
  /\ op = "login" /\ pc = "auth.startCheckAuthStatusLoop"
  /\ \/ /\ trace' = trace \o <<"auth.startCheckAuthStatusLoop.ok", "user.settings.sync">>
        /\ session' = [session EXCEPT !.loop = TRUE]
        /\ pc' = "user.settings.sync"
        /\ UNCHANGED <<local, replies, side>>
     \/ /\ loginCatch("auth.startCheckAuthStatusLoop.fail", NetworkError)
        /\ UNCHANGED session
  /\ UNCHANGED <<op, hpc, fpc, worker, args, server, progress, ncalls, hist>>

\* syncUserSettings() where only a login-form caller has the application
\* surface initialised; any other caller is answered at once
syncUserSettingsMutant ==
  /\ op = "login" /\ pc = "user.settings.sync"
  /\ \E r \in {"ok", "fail"} :
       /\ session' = [session EXCEPT !.settings = IF r = "ok" THEN "synced" ELSE "defaults"]
       /\ trace' = trace
                     \o (IF r = "ok" THEN <<"user.settings.sync.ok">>
                         ELSE <<"user.settings.sync.fail", "user.settings.setDefaults">>)
                     \o (IF isAuthForm(worker) THEN <<"handleLoginSuccess", "PassboltApp.init">>
                         ELSE <<"handleLoginSuccess">>)
  /\ pc' = "done"
  /\ IF isAuthForm(worker)
       THEN hpc' = "PassboltApp.init" /\ replies' = replies
       ELSE hpc' = "done" /\ replies' = Append(replies, Reply("SUCCESS", <<>>))
  /\ UNCHANGED <<op, fpc, worker, args, server, local, side, progress, ncalls, hist>>

\* syncUserSettings(): user.settings.sync() settles, a failure is replaced by
\* setDefaults(); then handleLoginSuccess(redirect) is called and not awaited:
\* it calls PassboltApp.init(), suspends on it, and login() returns
syncUserSettings ==
  /\ op = "login" /\ pc = "user.settings.sync"
  /\ \/ /\ trace' = trace \o <<"user.settings.sync.ok", "handleLoginSuccess", "PassboltApp.init">>
        /\ session' = [session EXCEPT !.settings = "synced"]
     \/ /\ trace' = trace \o <<"user.settings.sync.fail", "user.settings.setDefaults",
                               "handleLoginSuccess", "PassboltApp.init">>
        /\ session' = [session EXCEPT !.settings = "defaults"]
  /\ pc' = "done"
  /\ hpc' = "PassboltApp.init"
  /\ UNCHANGED <<op, fpc, worker, args, server, local, replies, side, progress, ncalls, hist>>

\* handleLoginSuccess(redirect): PassboltApp.init() settles
handleLoginSuccess ==
  /\ op = "login" /\ hpc = "PassboltApp.init"
  /\ \/ /\ trace' = Append(trace, "PassboltApp.init.ok")
        /\ IF isAuthForm(worker)
             THEN /\ side' = Append(side, SideMsg(local.tabId, "passbolt.auth.login-success",
                                                  <<MsgLoggedIn, redirectUrl(args.redirect)>>))
                  /\ replies' = replies
             ELSE /\ replies' = Append(replies, Reply("SUCCESS", <<>>))
                  /\ side' = side
        /\ hpc' = "done"
     \/ \* init rejects: the promise of handleLoginSuccess rejects, nobody awaits it
        /\ trace' = Append(trace, "PassboltApp.init.fail")
        /\ hpc' = "rejected"
        /\ UNCHANGED <<replies, side>>
  /\ UNCHANGED <<op, pc, fpc, worker, args, server, local, session, progress, ncalls, hist>>

----------------------------------------------------------------------------
(* SecretDecryptController.decrypt and _getSecret *)

FetchError == MkError("FetchError", <<"not found">>)

\* the armored secret the server stores for a resource
Armored(resourceId) == [defined |-> TRUE, data |-> <<"enc", resourceId>>]

\* what LegacyResourceService.findOne may answer as resource.secrets
LegacySecrets(resourceId) ==
  { <<>>, <<Armored(resourceId)>>,
    <<Armored(resourceId), [defined |-> TRUE, data |-> <<"enc", "other">>]>> }

\* resource.secrets[0]
\* variant: the last entry is taken instead of the first
firstSecretMutant(secrets) == IF Len(secrets) = 0 THEN Undefined ELSE secrets[Len(secrets)]
firstSecret(secrets) == IF Len(secrets) = 0 THEN Undefined ELSE secrets[1]

\* crypto.decryptWithKey(data, privateKey): the plaintext of an armored message
plaintext(data) == <<"plain", data[2]>>

\* decrypt(resourceId) is called: _getSecret(resourceId) is called, which calls
\* Secret.findByResourceId and suspends; then passphraseController.get is
\* called and awaited
decrypt ==
  /\ CanStart
  /\ \E w \in Workers, r \in ResourceIds :
       /\ worker' = w
       /\ args' = [IdleArgs EXCEPT !.resourceId = r]
  /\ op' = "decrypt"
  /\ pc' = "passphraseController.get"
  /\ fpc' = "Secret.findByResourceId"
  /\ hpc' = "idle"
  /\ server' = IdleServer
  /\ local' = IdleLocal
  /\ replies' = <<>>
  /\ side' = <<>>
  /\ trace' = <<"Secret.findByResourceId", "passphraseController.get">>
  /\ ncalls' = ncalls + 1
  /\ hist' = [hist EXCEPT !.session0 = session]
  /\ UNCHANGED <<session, progress>>

\* _getSecret: Secret.findByResourceId(resourceId) settles
\* variant: the legacy lookup is called whatever the primary lookup did
getSecretFindMutant ==
  /\ op = "decrypt" /\ fpc = "Secret.findByResourceId"
  /\ \E ok \in BOOLEAN :
       /\ trace' = trace \o <<IF ok THEN "Secret.findByResourceId.ok"
                                    ELSE "Secret.findByResourceId.fail",
                              "LegacyResourceService.findOne">>
       /\ local' = IF ok THEN [local EXCEPT !.secretPromise = Armored(args.resourceId)]
                         ELSE local
       /\ fpc' = "LegacyResourceService.findOne"
  /\ UNCHANGED <<op, pc, hpc, worker, args, server, replies, side, session, progress, ncalls, hist>>

getSecretFind ==
  /\ op = "decrypt" /\ fpc = "Secret.findByResourceId"
  /\ \/ /\ trace' = Append(trace, "Secret.findByResourceId.ok")
        /\ local' = [local EXCEPT !.secretPromise = Armored(args.resourceId)]
        /\ fpc' = "fulfilled"
     \/ /\ trace' = trace \o <<"Secret.findByResourceId.fail", "LegacyResourceService.findOne">>
        /\ fpc' = "LegacyResourceService.findOne"
        /\ UNCHANGED local
  /\ UNCHANGED <<op, pc, hpc, worker, args, server, replies, side, session, progress, ncalls, hist>>

\* _getSecret: LegacyResourceService.findOne(resourceId, ...) settles
getSecretLegacy ==
  /\ op = "decrypt" /\ fpc = "LegacyResourceService.findOne"
  /\ \/ \E secrets \in LegacySecrets(args.resourceId) :
          /\ trace' = Append(trace, "LegacyResourceService.findOne.ok")
          /\ local' = [local EXCEPT !.resource = secrets,
                                    !.secretPromise = firstSecret(secrets)]
          /\ fpc' = "fulfilled"
     \/ /\ trace' = Append(trace, "LegacyResourceService.findOne.fail")
        /\ fpc' = "rejected"
        /\ UNCHANGED local
  /\ UNCHANGED <<op, pc, hpc, worker, args, server, replies, side, session, progress, ncalls, hist>>

\* the catch block of lines 54-58: log, emit ERROR, call and await close
decryptCatch(event, error) ==
  /\ trace' = trace \o <<event, "console.error", "progressController.close">>
  /\ local' = [local EXCEPT !.error = error]
  /\ replies' = Append(replies, Reply("ERROR", getEmitableError(error)))
  /\ pc' = "catch.progressController.close"

\* passphraseController.get(worker) settles
\* variant: no return after the ERROR of a cancelled prompt
decryptPassphraseMutant ==
  /\ op = "decrypt" /\ pc = "passphraseController.get"
  /\ \/ \E p \in Passphrases :
          /\ trace' = trace \o <<"passphraseController.get.ok", "progressController.open">>
          /\ local' = [local EXCEPT !.passphrase = p]
          /\ pc' = "progressController.open"
          /\ UNCHANGED replies
     \/ /\ trace' = trace \o <<"passphraseController.get.fail", "progressController.open">>
        /\ local' = [local EXCEPT !.error = PromptCancelledError]
        /\ replies' = Append(replies, Reply("ERROR", getEmitableError(PromptCancelledError)))
        /\ pc' = "progressController.open"
  /\ UNCHANGED <<op, hpc, fpc, worker, args, server, side, session, progress, ncalls, hist>>

decryptPassphrase ==
  /\ op = "decrypt" /\ pc = "passphraseController.get"
  /\ \/ \E p \in Passphrases :
          /\ trace' = trace \o <<"passphraseController.get.ok", "progressController.open">>
          /\ local' = [local EXCEPT !.passphrase = p]
          /\ pc' = "progressController.open"
          /\ UNCHANGED replies
     \/ /\ trace' = Append(trace, "passphraseController.get.fail")
        /\ local' = [local EXCEPT !.error = PromptCancelledError]
        /\ replies' = Append(replies, Reply("ERROR", getEmitableError(PromptCancelledError)))
        /\ pc' = "done"
  /\ UNCHANGED <<op, hpc, fpc, worker, args, server, side, session, progress, ncalls, hist>>

\* progressController.open(...) settles; then secretPromise is awaited
decryptOpen ==
  /\ op = "decrypt" /\ pc = "progressController.open"
  /\ \/ /\ trace' = Append(trace, "progressController.open.ok")
        /\ progress' = [progress EXCEPT !.open = TRUE]
        /\ pc' = "secretPromise"
        /\ UNCHANGED <<local, replies>>
     \/ /\ decryptCatch("progressController.open.fail", ProgressError)
        /\ \E o \in {progress.open, TRUE} : progress' = [progress EXCEPT !.open = o]
  /\ UNCHANGED <<op, hpc, fpc, worker, args, server, side, session, ncalls, hist>>

\* await secretPromise resumes once _getSecret has settled
\* variant: secretPromise is used without being awaited, so secret.data is
\* undefined and the decryption goes on without the fetch
decryptAwaitSecretMutant ==
  /\ op = "decrypt" /\ pc = "secretPromise"
  /\ trace' = trace \o <<"secretPromise.ok", "crypto.getAndDecryptPrivateKey">>
  /\ local' = [local EXCEPT !.secret = [defined |-> TRUE, data |-> <<"enc", "undefined">>]]
  /\ pc' = "crypto.getAndDecryptPrivateKey"
  /\ UNCHANGED replies
  /\ UNCHANGED <<op, hpc, fpc, worker, args, server, side, session, progress, ncalls, hist>>

decryptAwaitSecret ==
  /\ op = "decrypt" /\ pc = "secretPromise"
  /\ \/ /\ fpc = "fulfilled"
        /\ trace' = trace \o <<"secretPromise.ok", "crypto.getAndDecryptPrivateKey">>
        /\ local' = [local EXCEPT !.secret = local.secretPromise]
        /\ pc' = "crypto.getAndDecryptPrivateKey"
        /\ UNCHANGED replies
     \/ /\ fpc = "rejected"
        /\ decryptCatch("secretPromise.fail", FetchError)
  /\ UNCHANGED <<op, hpc, fpc, worker, args, server, side, session, progress, ncalls, hist>>

\* crypto.getAndDecryptPrivateKey(passphrase) settles
\* variant: the passphrase that unlocked the key is kept in the session
decryptPrivateKeyMutant ==
  /\ op = "decrypt" /\ pc = "crypto.getAndDecryptPrivateKey"
  /\ \/ /\ canDecryptPrivateKey(local.passphrase)
        /\ trace' = trace \o <<"crypto.getAndDecryptPrivateKey.ok", "progressController.update">>
        /\ local' = [local EXCEPT !.privateKey = "privateKey"]
        /\ session' = [session EXCEPT !.retained =
                         <<[masterPassword |-> local.passphrase, timeout |-> -1]>>]
        /\ pc' = "progressController.update.1"
        /\ UNCHANGED replies
     \/ /\ decryptCatch("crypto.getAndDecryptPrivateKey.fail", CryptoError)
        /\ UNCHANGED session
  /\ UNCHANGED <<op, hpc, fpc, worker, args, server, side, progress, ncalls, hist>>

decryptPrivateKey ==
  /\ op = "decrypt" /\ pc = "crypto.getAndDecryptPrivateKey"
  /\ \/ /\ canDecryptPrivateKey(local.passphrase)
        /\ trace' = trace \o <<"crypto.getAndDecryptPrivateKey.ok", "progressController.update">>
        /\ local' = [local EXCEPT !.privateKey = "privateKey"]
        /\ pc' = "progressController.update.1"
        /\ UNCHANGED replies
     \/ decryptCatch("crypto.getAndDecryptPrivateKey.fail", CryptoError)
  /\ UNCHANGED <<op, hpc, fpc, worker, args, server, side, session, progress, ncalls, hist>>

\* progressController.update(worker, 1, ...) settles; then secret.data is read
\* and crypto.decryptWithKey is called
decryptUpdate1 ==
  /\ op = "decrypt" /\ pc = "progressController.update.1"
  /\ \/ /\ local.secret.defined
        /\ trace' = trace \o <<"progressController.update.ok", "crypto.decryptWithKey">>
        /\ pc' = "crypto.decryptWithKey"
        /\ UNCHANGED <<local, replies>>
     \/ /\ ~local.secret.defined
        /\ decryptCatch("progressController.update.ok", TypeError)
     \/ decryptCatch("progressController.update.fail", ProgressError)
  /\ UNCHANGED <<op, hpc, fpc, worker, args, server, side, session, progress, ncalls, hist>>

\* crypto.decryptWithKey(secret.data, privateKey) settles
decryptWithKey ==
  /\ op = "decrypt" /\ pc = "crypto.decryptWithKey"
  /\ \/ /\ trace' = trace \o <<"crypto.decryptWithKey.ok", "progressController.update">>
        /\ local' = [local EXCEPT !.message = plaintext(local.secret.data)]
        /\ pc' = "progressController.update.2"
        /\ UNCHANGED replies
     \/ decryptCatch("crypto.decryptWithKey.fail", CryptoError)
  /\ UNCHANGED <<op, hpc, fpc, worker, args, server, side, session, progress, ncalls, hist>>

\* progressController.update(worker, 2, "Complete") settles; then SUCCESS is
\* emitted and progressController.close is called and awaited
decryptUpdate2 ==
  /\ op = "decrypt" /\ pc = "progressController.update.2"
  /\ \/ /\ trace' = trace \o <<"progressController.update.ok", "progressController.close">>
        /\ replies' = Append(replies, Reply("SUCCESS", local.message))
        /\ pc' = "progressController.close"
        /\ UNCHANGED local
     \/ decryptCatch("progressController.update.fail", ProgressError)
  /\ UNCHANGED <<op, hpc, fpc, worker, args, server, side, session, progress, ncalls, hist>>

\* progressController.close(worker) of line 53 settles
decryptClose ==
  /\ op = "decrypt" /\ pc = "progressController.close"
  /\ \/ /\ trace' = Append(trace, "progressController.close.ok")
        /\ progress' = [progress EXCEPT !.open = FALSE]
        /\ pc' = "done"
        /\ UNCHANGED <<local, replies>>
     \/ /\ decryptCatch("progressController.close.fail", ProgressError)
        /\ \E o \in {progress.open, FALSE} : progress' = [progress EXCEPT !.open = o]
  /\ UNCHANGED <<op, hpc, fpc, worker, args, server, side, session, ncalls, hist>>

\* progressController.close(worker) of line 57 settles
decryptCatchClose ==
  /\ op = "decrypt" /\ pc = "catch.progressController.close"
  /\ \/ /\ trace' = Append(trace, "progressController.close.ok")
        /\ progress' = [progress EXCEPT !.open = FALSE]
        /\ pc' = "done"
     \/ /\ trace' = Append(trace, "progressController.close.fail")
        /\ \E o \in {progress.open, FALSE} : progress' = [progress EXCEPT !.open = o]
        /\ pc' = "rejected"
  /\ UNCHANGED <<op, hpc, fpc, worker, args, server, local, replies, side, session, ncalls, hist>>

----------------------------------------------------------------------------
NextVerify ==
  \/ verify
  \/ verifyAuthVerify
  \/ verifyServerKeyChanged
  \/ verifyIsServerKeyExpired

NextLogin ==
  \/ login
  \/ loginCsrf
  \/ loginDecryptKey
  \/ loginAuthLogin
  \/ loginStartLoop
  \/ syncUserSettings
  \/ handleLoginSuccess

NextDecrypt ==
  \/ decrypt
  \/ getSecretFind
  \/ getSecretLegacy
  \/ decryptPassphrase
  \/ decryptOpen
  \/ decryptAwaitSecret
  \/ decryptPrivateKey
  \/ decryptUpdate1
  \/ decryptWithKey
  \/ decryptUpdate2
  \/ decryptClose
  \/ decryptCatchClose

Next == NextVerify \/ NextLogin \/ NextDecrypt \/ release

Spec == Init /\ [][Next]_vars

----------------------------------------------------------------------------
(* Observations shared by the properties *)

NumStatus(st) == Cardinality({i \in 1..Len(replies) : replies[i].status = st})
NumEvent(ev) == Cardinality({i \in 1..Len(side) : side[i].event = ev})

\* reports of the outcome of login(), on either channel
SuccessReports == NumStatus("SUCCESS") + NumEvent("passbolt.auth.login-success")
FailureReports == NumStatus("ERROR") + NumEvent("passbolt.auth.login-failed")

\* a happened, and before b
Before(a, b) == Index(a) > 0 /\ Index(b) > 0 /\ Index(a) < Index(b)

\* the method has returned (or thrown) and nothing it started is pending
Finished == op # None /\ Settled

----------------------------------------------------------------------------
(* C1: in login(), a success report (SUCCESS on the reply channel or
   login-success on the side channel) is emitted only after private-key
   decryption succeeded and then Authenticator.login succeeded; if one of the
   two fails, exactly one failure report is emitted and the liveness loop is
   never started. *)
C1_LoginSuccessNeedsKeyAndLogin ==
  op = "login" =>
    /\ SuccessReports > 0 =>
         /\ Before("crypto.getAndDecryptPrivateKey.ok", "auth.login.ok")
         /\ Before("auth.login.ok", "PassboltApp.init.ok")
    /\ (Called("crypto.getAndDecryptPrivateKey.fail") \/ Called("auth.login.fail")) =>
         /\ FailureReports = 1
         /\ SuccessReports = 0
         /\ ~Called("auth.startCheckAuthStatusLoop")

C1_Witness ==
  /\ op = "login" /\ Finished
  /\ Called("crypto.getAndDecryptPrivateKey.ok")
  /\ Called("auth.login.fail")
  /\ FailureReports = 1

(* C2: when Authenticator.verify() fails and the probes answer, the emitted
   error is ServerKeyChangedError if the server key changed (whatever the
   expiry probe would say), else KeyIsExpiredError if the key is expired,
   else the original error. *)
C2_VerifyClassification ==
  (op = "verify" /\ pc = "done" /\ Called("auth.verify.fail")) =>
    /\ Len(replies) = 1
    /\ replies[1].status = "ERROR"
    /\ replies[1].payload.name =
         IF server.keyChanged THEN "ServerKeyChangedError"
         ELSE IF server.keyExpired THEN "KeyIsExpiredError"
         ELSE AuthError.name

C2_Witness ==
  /\ op = "verify" /\ pc = "done" /\ Called("auth.verify.fail")
  /\ server.keyChanged /\ server.keyExpired
  /\ replies[1].payload.name = "ServerKeyChangedError"

(* C3: when Authenticator.verify() succeeds, exactly one SUCCESS and no ERROR
   is emitted, and neither serverKeyChanged() nor isServerKeyExpired() is
   called. *)
C3_VerifySuccess ==
  (op = "verify" /\ Called("auth.verify.ok")) =>
    /\ NumStatus("SUCCESS") = 1
    /\ NumStatus("ERROR") = 0
    /\ ~Called("auth.serverKeyChanged")
    /\ ~Called("auth.isServerKeyExpired")

C3_Witness ==
  /\ op = "verify" /\ pc = "done" /\ Called("auth.verify.ok")
  /\ replies = <<Reply("SUCCESS", MsgVerified)>>

(* C4: a decrypt() that opens the progress scope calls
   progressController.close exactly once before it finishes, never twice,
   whichever step fails. *)
C4_ProgressClosedExactlyOnce ==
  (op = "decrypt" /\ Called("progressController.open")) =>
    /\ Count(trace, "progressController.close") <= 1
    /\ pc \in {"done", "rejected"} => Count(trace, "progressController.close") = 1

(* C5: in decrypt(), the legacy lookup is called if and only if the primary
   lookup Secret.findByResourceId failed, and at most once. *)
C5_LegacyIffPrimaryFailed ==
  op = "decrypt" =>
    /\ Count(trace, "LegacyResourceService.findOne") <= 1
    /\ Called("LegacyResourceService.findOne") <=> Called("Secret.findByResourceId.fail")
    /\ Called("Secret.findByResourceId.ok") => ~Called("LegacyResourceService.findOne")

C5_Witness ==
  /\ op = "decrypt" /\ fpc = "fulfilled"
  /\ Called("Secret.findByResourceId.fail")
  /\ Called("LegacyResourceService.findOne.ok")

(* C6: when the passphrase prompt of decrypt() fails, exactly one ERROR is
   emitted, the progress scope is never opened, no decryption is called, and
   nothing more is emitted when the secret fetch settles, before or after the
   cancellation, with success or failure. *)
C6_PromptCancelled ==
  (op = "decrypt" /\ Called("passphraseController.get.fail")) =>
    /\ Len(replies) = 1
    /\ replies[1].status = "ERROR"
    /\ replies[1].payload.name = PromptCancelledError.name
    /\ side = <<>>
    /\ ~Called("progressController.open")
    /\ ~Called("progressController.close")
    /\ ~Called("crypto.getAndDecryptPrivateKey")
    /\ ~Called("crypto.decryptWithKey")

C6_Witness ==
  /\ op = "decrypt" /\ pc = "done" /\ fpc = "rejected"
  /\ Before("passphraseController.get.fail", "Secret.findByResourceId.fail")
  /\ Len(replies) = 1

(* C7: in login(), when CSRF bootstrap, key decryption and Authenticator.login
   succeed and the settings sync fails, the default settings are applied, a
   success report is emitted, no failure report is emitted, and with
   remember = false the call retains no passphrase. *)
C7_SettingsSyncFailureNotFatal ==
  (op = "login" /\ Finished /\ Called("user.settings.sync.fail")) =>
    /\ session.settings = "defaults"
    /\ SuccessReports = 1
    /\ FailureReports = 0
    /\ ~args.remember => ~Called("user.storeMasterPasswordTemporarily")

(* C8: the steps of login() run in the order CSRF bootstrap, key decryption,
   Authenticator.login, passphrase retention (if remember), liveness-loop
   start, settings sync, success report; a step begins only after its
   predecessor completed; a failed CSRF bootstrap means the key is never
   decrypted; a failed key decryption means no Authenticator.login, no
   retention and no settings sync. *)
C8_LoginStepOrder ==
  op = "login" =>
    /\ Called("crypto.getAndDecryptPrivateKey") =>
         Before("user.retrieveAndStoreCsrfToken.ok", "crypto.getAndDecryptPrivateKey")
    /\ Called("auth.login") =>
         Before("crypto.getAndDecryptPrivateKey.ok", "auth.login")
    /\ Called("user.storeMasterPasswordTemporarily") =>
         /\ args.remember
         /\ Before("auth.login.ok", "user.storeMasterPasswordTemporarily")
    /\ Called("auth.startCheckAuthStatusLoop") =>
         /\ Before("auth.login.ok", "auth.startCheckAuthStatusLoop")
         /\ args.remember =>
              Before("user.storeMasterPasswordTemporarily", "auth.startCheckAuthStatusLoop")
    /\ Called("user.settings.sync") =>
         Before("auth.startCheckAuthStatusLoop.ok", "user.settings.sync")
    /\ Called("handleLoginSuccess") =>
         \/ Before("user.settings.sync.ok", "handleLoginSuccess")
         \/ Before("user.settings.setDefaults", "handleLoginSuccess")
    /\ SuccessReports > 0 => Before("handleLoginSuccess", "PassboltApp.init.ok")
    /\ Called("user.retrieveAndStoreCsrfToken.fail") =>
         ~Called("crypto.getAndDecryptPrivateKey")
    /\ Called("crypto.getAndDecryptPrivateKey.fail") =>
         /\ ~Called("auth.login")
         /\ ~Called("user.storeMasterPasswordTemporarily")
         /\ ~Called("user.settings.sync")

C8_Witness ==
  /\ op = "login" /\ Finished /\ args.remember
  /\ SuccessReports = 1
  /\ Called("user.settings.sync.ok")

(* C9: every decrypt() emits exactly one reply, SUCCESS or ERROR, never both
   and never none, whatever the prompt, the fetch, the decryptions and the
   progress open/update/close do. *)
C9_DecryptExactlyOneReply ==
  op = "decrypt" =>
    /\ Len(replies) <= 1
    /\ pc \in {"done", "rejected"} => Len(replies) = 1

(* C10: the outcome of login() is routed by the caller context only: an
   AuthForm caller gets the processing notice, success and failure on the
   side channel of its tab and nothing on the reply channel; any other caller
   gets SUCCESS without payload or ERROR on the reply channel and nothing on
   the side channel. *)
C10_LoginRouting ==
  op = "login" =>
    IF worker.pageMod = "AuthForm"
      THEN /\ replies = <<>>
           /\ Len(side) >= 1
           /\ side[1].event = "passbolt.auth.login-processing"
           /\ \A i \in 1..Len(side) :
                /\ side[i].worker = "Auth" /\ side[i].tab = worker.tab
                /\ i > 1 => side[i].event \in {"passbolt.auth.login-success",
                                               "passbolt.auth.login-failed"}
      ELSE /\ side = <<>>
           /\ \A i \in 1..Len(replies) :
                \/ replies[i].status = "SUCCESS" /\ replies[i].payload = <<>>
                \/ replies[i].status = "ERROR"

C10_Witness ==
  /\ op = "login" /\ Finished /\ worker.pageMod = "PassboltApp"
  /\ replies = <<Reply("SUCCESS", <<>>)>>

(* C11: decrypt() is idempotent: a decrypt() that follows a decrypt() of the
   same resource with the same passphrase and the same fetched secret emits
   the same plaintext in its SUCCESS reply; a decrypt() leaves the session
   (retained passphrase, csrf token, settings) as it was when the call
   started, and a successful one leaves the progress scope closed. *)
C11_DecryptIdempotent ==
  op = "decrypt" =>
    /\ session = hist.session0
    /\ (pc = "done" /\ NumStatus("SUCCESS") = 1 /\ NumStatus("ERROR") = 0) => ~progress.open
    /\ \A i \in 1..Len(replies) :
         ( /\ replies[i].status = "SUCCESS"
           /\ hist.prev.resourceId = args.resourceId
           /\ hist.prev.passphrase = local.passphrase
           /\ hist.prev.data = local.secret.data )
         => replies[i].payload = hist.prev.message

C11_Witness ==
  /\ op = "decrypt" /\ pc = "done" /\ ncalls = 2
  /\ hist.prev.resourceId = args.resourceId
  /\ hist.prev.passphrase = local.passphrase
  /\ replies = <<Reply("SUCCESS", hist.prev.message)>>
  /\ hist.prev.message = plaintext(Armored(args.resourceId).data)

\* decrypt() went through the legacy lookup, which answered a resource
LegacyPath ==
  /\ op = "decrypt"
  /\ Called("Secret.findByResourceId.fail")
  /\ Called("LegacyResourceService.findOne.ok")

\* the prompt and both decryptions succeeded
PromptAndDecryptionsOk ==
  /\ Called("passphraseController.get.ok")
  /\ Called("crypto.getAndDecryptPrivateKey.ok")
  /\ Called("crypto.decryptWithKey.ok")

(* C12 as claimed: whenever the primary lookup fails, the legacy lookup
   succeeds and the prompt and both decryptions succeed, decrypt() emits
   SUCCESS with the plaintext of the first secret of the legacy resource. *)
C12_LegacyAlwaysSuccess ==
  (LegacyPath /\ PromptAndDecryptionsOk /\ pc \in {"done", "rejected"}) =>
    \E i \in 1..Len(replies) :
      replies[i] = Reply("SUCCESS", plaintext(local.resource[1].data))

(* C12 as amended: on the legacy path the secret used is the first entry of
   the legacy resource; every SUCCESS carries its plaintext; and when the
   prompt, both decryptions and the progress open and both updates succeed,
   SUCCESS with that plaintext is the first and only reply so far. *)
C12_LegacyTransparent ==
  LegacyPath =>
    /\ local.secretPromise =
         (IF Len(local.resource) = 0 THEN Undefined ELSE local.resource[1])
    /\ Called("secretPromise.ok") => local.secret = local.secretPromise
    /\ \A i \in 1..Len(replies) :
         replies[i].status = "SUCCESS" =>
           /\ Len(local.resource) > 0
           /\ replies[i].payload = plaintext(local.resource[1].data)
    /\ ( /\ PromptAndDecryptionsOk
         /\ Called("progressController.open.ok")
         /\ Count(trace, "progressController.update.ok") = 2 )
       => /\ Len(replies) >= 1
          /\ replies[1] = Reply("SUCCESS", plaintext(local.resource[1].data))
          /\ NumStatus("SUCCESS") = 1

C12_Witness ==
  /\ LegacyPath /\ pc = "done"
  /\ Len(local.resource) = 2
  /\ replies = <<Reply("SUCCESS", plaintext(local.resource[1].data))>>

(* C13 as claimed: the liveness-loop start is fire-and-forget: a loop start
   that fails after being launched does not prevent or change the success
   report, and login() has gone on to the settings sync. *)
C13_LoopStartNotAwaited ==
  (op = "login" /\ Called("auth.startCheckAuthStatusLoop.fail")) =>
    /\ FailureReports = 0
    /\ Called("user.settings.sync")

(* C13 as amended: the liveness-loop start is awaited: while it is pending
   nothing is synced or reported; the settings sync begins only after it
   fulfilled; when it rejects, login() reports exactly one failure, no
   success, and neither syncs the settings nor calls handleLoginSuccess. *)
C13_LoopStartAwaited ==
  op = "login" =>
    /\ pc = "auth.startCheckAuthStatusLoop" =>
         /\ ~Called("user.settings.sync")
         /\ ~Called("handleLoginSuccess")
         /\ SuccessReports = 0 /\ FailureReports = 0
    /\ Called("user.settings.sync") =>
         Before("auth.startCheckAuthStatusLoop.ok", "user.settings.sync")
    /\ Called("auth.startCheckAuthStatusLoop.fail") =>
         /\ FailureReports = 1 /\ SuccessReports = 0
         /\ ~Called("user.settings.sync")
         /\ ~Called("handleLoginSuccess")
         /\ hpc = "idle"

C13_Witness ==
  /\ op = "login" /\ pc = "done"
  /\ Called("auth.login.ok")
  /\ Called("auth.startCheckAuthStatusLoop.fail")
  /\ FailureReports = 1

(* C14: every login() reports exactly one final outcome, success or failure,
   never both and never none, also when the application-surface
   initialisation of the success report fails. *)
C14_LoginExactlyOneOutcome ==
  op = "login" =>
    /\ SuccessReports + FailureReports <= 1
    /\ Finished => SuccessReports + FailureReports = 1

(* C15: in decrypt() the secret fetch is started before the passphrase prompt
   is even called, hence before it resolves; ciphertext decryption starts
   only after the passphrase was obtained and the secret fetch, primary or
   legacy, fulfilled, in every interleaving of the two. *)
C15_FetchAndPromptJoined ==
  op = "decrypt" =>
    /\ Before("Secret.findByResourceId", "passphraseController.get")
    /\ Called("passphraseController.get.ok") =>
         Before("Secret.findByResourceId", "passphraseController.get.ok")
    /\ Called("crypto.decryptWithKey") =>
         /\ Before("passphraseController.get.ok", "crypto.decryptWithKey")
         /\ \/ Before("Secret.findByResourceId.ok", "crypto.decryptWithKey")
            \/ Before("LegacyResourceService.findOne.ok", "crypto.decryptWithKey")
         /\ fpc = "fulfilled"
         /\ local.secret = local.secretPromise

\* the prompt resolved first, the legacy fetch completed afterwards
C15_Witness ==
  /\ op = "decrypt" /\ Called("crypto.decryptWithKey")
  /\ Before("passphraseController.get.ok", "Secret.findByResourceId.fail")
  /\ Before("progressController.open.ok", "LegacyResourceService.findOne.ok")

\* the retained-passphrase slot as storeMasterPasswordTemporarily(passphrase, -1) leaves it
Forever(passphrase) == <<[masterPassword |-> passphrase, timeout |-> -1]>>

(* C16: the retained-passphrase slot is single-writer: verify() and decrypt()
   leave it as it was when the call started; login() writes it, with the
   "forever" marker, if and only if remember is true and CSRF bootstrap, key
   decryption and Authenticator.login have succeeded, all before the write. *)
C16_RetainedSingleWriter ==
  /\ op \in {"verify", "decrypt"} =>
       /\ session.retained = hist.session0.retained
       /\ ~Called("user.storeMasterPasswordTemporarily")
  /\ op = "login" =>
       /\ Called("user.storeMasterPasswordTemporarily") <=>
            (args.remember /\ Called("auth.login.ok"))
       /\ Count(trace, "user.storeMasterPasswordTemporarily") <= 1
       /\ Called("user.storeMasterPasswordTemporarily") =>
            /\ Before("user.retrieveAndStoreCsrfToken.ok", "user.storeMasterPasswordTemporarily")
            /\ Before("crypto.getAndDecryptPrivateKey.ok", "user.storeMasterPasswordTemporarily")
            /\ Before("auth.login.ok", "user.storeMasterPasswordTemporarily")
            /\ session.retained = Forever(args.passphrase)
       /\ ~Called("user.storeMasterPasswordTemporarily") =>
            session.retained = hist.session0.retained

C16_Witness ==
  /\ op = "login" /\ args.remember
  /\ hist.session0.retained = <<>>
  /\ session.retained = Forever("correct")

\* the redirect cases as the claim words them: absent, not a string, or not
\* starting with "/"
DomainAlone(redirect) ==
  \/ redirect.type = "null"
  \/ redirect.type # "string"
  \/ Len(redirect.chars) = 0
  \/ redirect.chars[1] # "/"

\* the URL the claim describes, before new URL(...).href
ClaimedUrl ==
  IF DomainAlone(args.redirect) THEN session.trustedDomain
  ELSE session.trustedDomain \o args.redirect.chars

StartsWith(s, prefix) ==
  Len(s) >= Len(prefix) /\ SubSeq(s, 1, Len(prefix)) = prefix

HasDotSegment(chars) == \E i \in 1..Len(chars) : chars[i] \in {".", ".."}

\* the login-success messages sent to the login form
LoginSuccessMsgs == {i \in 1..Len(side) : side[i].event = "passbolt.auth.login-success"}

(* C17 as claimed: the URL sent with login-success denotes the trusted domain
   alone when redirect is absent, not a string or does not start with "/",
   and the trusted domain followed by redirect otherwise; hence it always
   starts with the configured trusted domain. *)
C17_UrlStartsWithTrustedDomain ==
  op = "login" =>
    \A i \in LoginSuccessMsgs :
      /\ Href(side[i].payload[2]) = Href(ClaimedUrl)
      /\ StartsWith(side[i].payload[2], session.trustedDomain)

(* C17 as amended: the URL sent is the href of the trusted domain alone, or of
   the trusted domain followed by redirect, as parsed by the URL parser; it
   always has the origin of the trusted domain, and it starts with the
   trusted domain whenever redirect has no "." or ".." segment. *)
C17_UrlHasTrustedOrigin ==
  op = "login" =>
    \A i \in LoginSuccessMsgs :
      /\ side[i].payload[2] = Href(ClaimedUrl)
      /\ OriginOf(side[i].payload[2]) = OriginOf(session.trustedDomain)
      /\ ~HasDotSegment(args.redirect.chars) =>
           StartsWith(side[i].payload[2], session.trustedDomain)

C17_Witness ==
  /\ op = "login" /\ LoginSuccessMsgs # {}
  /\ args.redirect.chars = <<"/", "..", "/", "a">>
  /\ Len(session.trustedDomain) > 1
  /\ \A i \in LoginSuccessMsgs :
       side[i].payload[2] = <<"https://passbolt.dev", "/", "a">>

(* C18 as claimed: on login success the application surface is initialised
   exactly when the caller is a login-form caller; the SUCCESS of any other
   caller does not depend on the initialisation. *)
C18_InitOnlyForLoginForm ==
  (op = "login" /\ Called("handleLoginSuccess")) =>
    (Called("PassboltApp.init") <=> worker.pageMod = "AuthForm")

(* C18 as amended: on login success the application surface is initialised for
   every caller, before anything is reported; a caller that is not the login
   form gets its plain SUCCESS on the reply channel, and nothing else, only
   once the initialisation has succeeded. *)
C18_InitForEveryCaller ==
  op = "login" =>
    /\ Called("handleLoginSuccess") => Called("PassboltApp.init")
    /\ SuccessReports > 0 => Called("PassboltApp.init.ok")
    /\ (worker.pageMod # "AuthForm" /\ SuccessReports > 0) =>
         replies = <<Reply("SUCCESS", <<>>)>> /\ side = <<>>
    /\ (worker.pageMod # "AuthForm" /\ Called("PassboltApp.init.ok")) =>
         NumStatus("SUCCESS") = 1

C18_Witness ==
  /\ op = "login" /\ ~isAuthForm(worker)
  /\ Before("PassboltApp.init", "PassboltApp.init.ok")
  /\ replies = <<Reply("SUCCESS", <<>>)>> /\ side = <<>>

(* C19: a login() that reports a failure leaves the retained-passphrase slot
   of the session as it was when the call started, also when the failing
   step comes after Authenticator.login. *)
C19_FailedLoginKeepsRetainedSlot ==
  (op = "login" /\ FailureReports > 0) =>
    session.retained = hist.session0.retained

(* C20: every verify() emits exactly one reply, SUCCESS or ERROR, also when a
   classification probe fails after Authenticator.verify() failed; and a
   verify() changes no session state. *)
C20_VerifyExactlyOneReply ==
  op = "verify" =>
    /\ Len(replies) <= 1
    /\ \A i \in 1..Len(replies) : replies[i].status \in {"SUCCESS", "ERROR"}
    /\ pc \in {"done", "rejected"} => Len(replies) = 1
    /\ session = hist.session0

====
